---- MODULE Spec2Model ----
(***************************************************************************)
(* Model of the SFU signaling server in src/server.js: the room registry,  *)
(* the rooms, the peers, the engine resources they hold, and the socket    *)
(* handlers.  Every handler is cut at its `await`s: the part between two   *)
(* awaits is one atomic step of the event loop, and a handler suspended at *)
(* an engine call is a task that another step resumes with the engine's    *)
(* answer (success or failure).                                            *)
(***************************************************************************)
EXTENDS Integers, Sequences, FiniteSets

(* ------------------------------ bounds -------------------------------- *)
MaxSockets == 2
MaxRequests == 5
MaxPopulatedRequests == 2
JoinCost == 2
MaxDtlsClosed == 1
MaxInflight == 2
RelaySockets == 5
MaxRelayRequests == 3

\* mediasoupConfig.numWorkers
NumWorkers == 2

\* the relay server's room capacity
MAX_USERS == 4

RoomNames == <<"r1", "r2", "r3">>
PeerNames == <<"a", "b", "c">>
Kinds == {"video"}

VARIABLES
  sockState,   \* socket -> "new" (connected, nothing received yet) | "open" | "closed"
  ioRooms,     \* socket -> the socket.io rooms it was added to by socket.join
  rooms,       \* the registry: a Map roomId -> Room (entries in insertion order)
  roomObjs,    \* the Room objects ever created: router state and peers Map;
               \* every object is named by the number of the request that created it
  peerObjs,    \* the peer objects ever created (room: the Room it was inserted into)
  transports,  \* the WebRtcTransports ever created
  producers,   \* the Producers ever created
  consumers,   \* the Consumers ever created
  tasks,       \* the handlers suspended at an engine call
  budget,      \* what the environment will still do: a request, a disconnect or the
               \* death of a worker counts one, a join-room (a handler of up to
               \* five engine calls) JoinCost
  ndtls,       \* number of dtlsstatechange 'closed' events delivered so far
  out,         \* what the last step sent: acknowledgments and emissions, in order
  peerLeft,    \* the peer objects for which peer-left has been emitted
  workers,     \* the worker pool: for each worker of the array, "alive" or "dead"
  exitTimers,  \* the pending setTimeout(() => process.exit(1), 2000) callbacks
  exited,      \* process.exit has run
  resumes,     \* consumer -> how many resume-consumer were acknowledged with success
               \* (a history of the behaviour, not a part of the server's state)
  roles        \* the relay server: socket -> socket.data.role ("" while not set)

vars == <<sockState, ioRooms, rooms, roomObjs, peerObjs, transports, producers,
          consumers, tasks, budget, ndtls, out, peerLeft, workers, exitTimers,
          exited, resumes, roles>>

\* the process: its worker pool, its exit timers, whether it has exited
wvars == <<workers, exitTimers, exited>>

\* the sockets that connect in the behaviour
Sockets == DOMAIN sockState

(* --------------------------- JavaScript Map --------------------------- *)
(* A Map is a sequence of [key, val] entries in insertion order.           *)
MapHas(m, k) == \E i \in DOMAIN m : m[i].key = k

MapGet(m, k) == IF MapHas(m, k) THEN m[CHOOSE i \in DOMAIN m : m[i].key = k].val ELSE 0

MapSet(m, k, v) ==
  IF MapHas(m, k)
    THEN [i \in DOMAIN m |-> IF m[i].key = k THEN [key |-> k, val |-> v] ELSE m[i]]
    ELSE Append(m, [key |-> k, val |-> v])

MapDelete(m, k) == SelectSeq(m, LAMBDA e : e.key # k)

MapVals(m) == {m[i].val : i \in DOMAIN m}

\* the store f with object k added
Extend(f, k, v) == [x \in DOMAIN f \cup {k} |-> IF x = k THEN v ELSE f[x]]

None == [x \in {} |-> 0]

SetMin(S) == CHOOSE x \in S : \A y \in S : x <= y

SetMax(S) == CHOOSE x \in S : \A y \in S : x >= y

(* ------------------------------ lookups ------------------------------- *)
\* the peers of a Room object, as a set of peer objects
RoomPeers(room) == MapVals(roomObjs[room].peers)

\* first peer among hits in the iteration order of rooms.values() x room.peers.values()
FirstPeer(hits) ==
  LET hitRooms == {i \in DOMAIN rooms : RoomPeers(rooms[i].val) \cap hits # {}}
  IN IF hitRooms = {} THEN 0
     ELSE LET ps == roomObjs[rooms[SetMin(hitRooms)].val].peers
              j == SetMin({k \in DOMAIN ps : ps[k].val \in hits})
          IN ps[j].val

\* faulty variant of getPeerBySocket: a socket without a peer gets the first peer
getPeerBySocketOrFirst(s) ==
  IF \E p \in DOMAIN peerObjs : peerObjs[p].socket = s
    THEN FirstPeer({p \in DOMAIN peerObjs : peerObjs[p].socket = s})
    ELSE FirstPeer(DOMAIN peerObjs)

getPeerBySocket(s) == FirstPeer({p \in DOMAIN peerObjs : peerObjs[p].socket = s})

getPeerByProducerId(pid) == FirstPeer({p \in DOMAIN peerObjs : pid \in peerObjs[p].producers})

\* the first roomId whose Room has an entry under the peer's id; "" for null
getRoomByPeer(peer) ==
  LET hit == {i \in DOMAIN rooms : MapHas(roomObjs[rooms[i].val].peers, peerObjs[peer].id)}
  IN IF hit = {} THEN "" ELSE rooms[SetMin(hit)].key

\* who receives socket.to(roomId).emit(...) sent on behalf of socket s
Recipients(roomId, s) ==
  {x \in Sockets : x # s /\ sockState[x] = "open" /\ roomId \in ioRooms[x]}

(* ------------------------------ messages ------------------------------ *)
NoEntry ==
  [type |-> "", sock |-> 0, name |-> "", ok |-> FALSE, to |-> {}, roomId |-> "",
   peerId |-> "", room |-> 0, peer |-> 0, producer |-> 0, consumer |-> 0,
   t1 |-> 0, t2 |-> 0, listed |-> {}, error |-> "", callback |-> TRUE,
   got |-> {}, lost |-> {}, role |-> ""]

AckOk(s, name) == [NoEntry EXCEPT !.type = "ack", !.sock = s, !.name = name, !.ok = TRUE]

AckError(s, name, error) ==
  [NoEntry EXCEPT !.type = "ack", !.sock = s, !.name = name, !.error = error]

\* error.message of a rejected engine call
EngineError == "engine"

Emit(s, name, roomId, peer) ==
  [NoEntry EXCEPT !.type = "emit", !.sock = s, !.name = name, !.roomId = roomId,
                  !.to = Recipients(roomId, s), !.peer = peer,
                  !.peerId = peerObjs[peer].id]

\* What can go wrong with an emission: 0 for nothing, a socket for a recipient
\* whose delivery fails (its connection is broken: the write to that client is
\* lost and nothing is reported to the emitter), -1 for an emit call that throws.
EmitFaults == {-1, 0} \cup Sockets

\* socket.to(roomId).emit writes the packet to every recipient in turn; a write
\* that fails does not stop the writes to the others
Deliver(to, fault) == to \ {fault}

\* the emission e under a fault; every emit of the handlers is in a try/catch of
\* its own that logs the error, so a throw ends the emission and nothing else
Faulted(e, fault) ==
  IF fault = -1 THEN [e EXCEPT !.type = "emit-throw"]
  ELSE [e EXCEPT !.got = Deliver(e.to, fault), !.lost = e.to \cap {fault}]

\* an operation a handler performed on the server's state, in its place among the
\* handler's acknowledgments and emissions
Step(name, room, peer) ==
  [NoEntry EXCEPT !.type = "step", !.name = name, !.room = room, !.peer = peer]

(* ------------------------------- tasks -------------------------------- *)
NoTask ==
  [req |-> 0, method |-> "", sock |-> 0, pc |-> "", roomId |-> "", peerId |-> "",
   room |-> 0, sendT |-> 0, recvT |-> 0, peer |-> 0, transport |-> 0,
   kind |-> "", producerId |-> 0, consumerId |-> 0, capsOk |-> FALSE, doomed |-> FALSE,
   worker |-> 0]

\* the name of the next request: a number no object and no suspended handler has
NextId ==
  1 + SetMax({0} \cup DOMAIN roomObjs \cup DOMAIN peerObjs \cup DOMAIN producers
                 \cup DOMAIN consumers \cup {(x + 1) \div 2 : x \in DOMAIN transports}
                 \cup {t.req : t \in tasks})

\* an engine call on a router or transport the engine no longer has is rejected
RouterDead(room) == roomObjs[room].closed

TransportDead(t) == transports[t].closed \/ roomObjs[transports[t].room].closed

(* ------------------------------- inputs ------------------------------ *)
\* Socket ids, room ids and peer ids are opaque: sockets are numbered in the order
\* of their first request, and a request names either an id the state already
\* holds or the first name not yet in use.
Range(f) == {f[i] : i \in DOMAIN f}

FirstFree(names, used) ==
  LET free == {i \in DOMAIN names : names[i] \notin used}
  IN IF free = {} THEN {} ELSE {names[SetMin(free)]}

RoomIds ==
  LET used == {t.roomId : t \in {x \in tasks : x.method = "join-room"}} \cup
              {roomObjs[r].id : r \in DOMAIN roomObjs}
  IN used \cup FirstFree(RoomNames, used)

PeerIds ==
  LET used == {t.peerId : t \in {x \in tasks : x.method = "join-room"}} \cup
              {peerObjs[q].id : q \in DOMAIN peerObjs}
  IN used \cup FirstFree(PeerNames, used)

\* Workers are interchangeable until they are used or die: getNextWorker's random
\* pick, and the worker that dies, is a worker already used or dead, or the first
\* that is neither.
WorkerTouched(w) ==
  \/ workers[w] = "dead"
  \/ \E r \in DOMAIN roomObjs : roomObjs[r].worker = w
  \/ \E t \in tasks : t.worker = w

getNextWorker == {w \in DOMAIN workers : \A x \in 1..(w - 1) : WorkerTouched(x)}

\* socket s may send a request (at most MaxInflight handlers are suspended at a time)
CanSend(s) ==
  /\ Cardinality(tasks) < MaxInflight
  /\ \/ sockState[s] = "open"
     \/ sockState[s] = "new" /\ \A x \in Sockets : x < s => sockState[x] # "new"

Init ==
  /\ sockState = [s \in 1..MaxSockets |-> "new"]
  /\ ioRooms = [s \in 1..MaxSockets |-> {}]
  /\ rooms = <<>>
  /\ roomObjs = None
  /\ peerObjs = None
  /\ transports = None
  /\ producers = None
  /\ consumers = None
  /\ tasks = {}
  /\ budget = MaxRequests
  /\ ndtls = 0
  /\ out = <<>>
  /\ peerLeft = {}
  /\ workers = [w \in 1..NumWorkers |-> "alive"]
  /\ exitTimers = 0
  /\ exited = FALSE
  /\ resumes = None
  /\ roles = [s \in 1..MaxSockets |-> ""]

\* A later state of the server, reached from Init by five requests served one
\* after the other without an engine failure: join-room{r1, a} on socket 1,
\* join-room{r1, b} on socket 2, produce{video} on socket 2's send transport,
\* join-room{r2, a} on socket 3 and consume of that producer on socket 1's
\* receive transport.  The router of r1 is on the first worker, that of r2 on the
\* second.
InitPopulated ==
  /\ sockState = [s \in 1..(MaxSockets + 1) |-> IF s <= 3 THEN "open" ELSE "new"]
  /\ ioRooms = [s \in 1..(MaxSockets + 1) |->
                  IF s <= 2 THEN {"r1"} ELSE IF s = 3 THEN {"r2"} ELSE {}]
  /\ rooms = << [key |-> "r1", val |-> 1], [key |-> "r2", val |-> 4] >>
  /\ roomObjs =
       Extend(Extend(None, 1, [id |-> "r1", closed |-> FALSE, worker |-> 1,
                               peers |-> << [key |-> "a", val |-> 1],
                                            [key |-> "b", val |-> 2] >>]),
              4, [id |-> "r2", closed |-> FALSE, worker |-> NumWorkers,
                  peers |-> << [key |-> "a", val |-> 4] >>])
  /\ peerObjs =
       [q \in {1, 2, 4} |->
          [id |-> IF q = 2 THEN "b" ELSE "a",
           socket |-> IF q = 4 THEN 3 ELSE q,
           transports |-> {2 * q - 1, 2 * q},
           producers |-> IF q = 2 THEN {3} ELSE {},
           consumers |-> IF q = 1 THEN {5} ELSE {},
           room |-> IF q = 4 THEN 4 ELSE 1]]
  /\ transports =
       [x \in {1, 2, 3, 4, 7, 8} |->
          [room |-> IF x <= 4 THEN 1 ELSE 4,
           dir |-> IF x % 2 = 1 THEN "send" ELSE "recv",
           closed |-> FALSE, connected |-> FALSE]]
  /\ producers = Extend(None, 3, [kind |-> "video", transport |-> 3, peer |-> 2,
                                  closed |-> FALSE])
  /\ consumers = Extend(None, 5, [producerId |-> 3, transport |-> 2, peer |-> 1,
                                  closed |-> FALSE])
  /\ tasks = {}
  /\ budget = MaxPopulatedRequests
  /\ ndtls = 0
  /\ out = << >>
  /\ peerLeft = {}
  /\ workers = [w \in 1..NumWorkers |-> "alive"]
  /\ exitTimers = 0
  /\ exited = FALSE
  /\ resumes = Extend(None, 5, 0)
  /\ roles = [s \in 1..(MaxSockets + 1) |-> ""]

(* ------------------------------ join-room ----------------------------- *)
\* faulty variant of JoinDuplicate: the duplicate is answered with the error and
\* the peer already in the Room is dropped from it
JoinDuplicateEvicts(s, roomId, peerId, room) ==
  /\ tasks' = tasks
  /\ out' = << [AckError(s, "join-room", "Peer already exists in room") EXCEPT
                  !.roomId = roomId, !.peerId = peerId, !.room = room] >>
  /\ roomObjs' = [roomObjs EXCEPT ![room].peers = MapDelete(@, peerId)]

\* callback({error: 'Peer already exists in room'}); return
JoinDuplicate(s, roomId, peerId, room) ==
  /\ tasks' = tasks
  /\ out' = << [AckError(s, "join-room", "Peer already exists in room") EXCEPT
                  !.roomId = roomId, !.peerId = peerId, !.room = room] >>
  /\ UNCHANGED roomObjs

\* join-room up to its first engine call: the argument check, getOrCreateRoom, the
\* duplicate check.  A roomId or peerId of "" is a missing one.
\* When the Room exists, `await getOrCreateRoom` yields only to the microtask queue,
\* which no other handler can enter, so the step runs on to createWebRtcTransport.
\* w: the worker getNextWorker picks when the Room has to be created.
JoinRoom(s, roomId, peerId, w) ==
  /\ CanSend(s)
  /\ w \in getNextWorker
  /\ budget >= JoinCost
  /\ budget' = budget - JoinCost
  /\ sockState' = [sockState EXCEPT ![s] = "open"]
  /\ LET t == [NoTask EXCEPT !.req = NextId, !.method = "join-room", !.sock = s,
                             !.roomId = roomId, !.peerId = peerId]
         room == MapGet(rooms, roomId)
     IN IF roomId = "" \/ peerId = ""
          THEN /\ tasks' = tasks
               /\ out' = << [AckError(s, "join-room", "roomId and peerId are required")
                               EXCEPT !.roomId = roomId, !.peerId = peerId] >>
               /\ UNCHANGED roomObjs
        ELSE IF ~MapHas(rooms, roomId)
          THEN /\ tasks' = tasks \cup {[t EXCEPT !.pc = "createRouter", !.worker = w,
                                                    !.doomed = workers[w] = "dead"]}
               /\ out' = << >>
               /\ UNCHANGED roomObjs
        ELSE IF MapHas(roomObjs[room].peers, peerId)
          THEN JoinDuplicate(s, roomId, peerId, room)
        ELSE /\ tasks' = tasks \cup {[t EXCEPT !.pc = "createSend", !.room = room,
                                               !.doomed = RouterDead(room)]}
             /\ out' = << >>
             /\ UNCHANGED roomObjs
  /\ UNCHANGED <<ndtls, peerLeft, wvars, resumes, ioRooms, rooms, peerObjs, transports, producers, consumers>>
  /\ UNCHANGED roles

\* the catch block of join-room: the error acknowledgment, nothing else
JoinFail(t) ==
  /\ tasks' = tasks \ {t}
  /\ out' = << [AckError(t.sock, "join-room", EngineError) EXCEPT
                           !.roomId = t.roomId, !.peerId = t.peerId, !.room = t.room,
                           !.t1 = t.sendT, !.t2 = t.recvT] >>

\* worker.createRouter answered: the Room is built and registered
JoinRouterDone(t, ok) ==
  /\ t \in tasks /\ t.pc = "createRouter"
  /\ ok => ~t.doomed /\ workers[t.worker] = "alive"
  /\ IF ok
       THEN LET room == t.req
            IN /\ roomObjs' = Extend(roomObjs, room,
                                     [id |-> t.roomId, closed |-> FALSE,
                                      worker |-> t.worker, peers |-> <<>>])
               /\ rooms' = MapSet(rooms, t.roomId, room)
               /\ tasks' = (tasks \ {t}) \cup
                             {[t EXCEPT !.pc = "createSend", !.room = room, !.worker = 0]}
               /\ out' = << >>
       ELSE /\ JoinFail(t)
            /\ UNCHANGED <<rooms, roomObjs>>
  /\ UNCHANGED <<ndtls, peerLeft, wvars, resumes,
                 sockState, ioRooms, peerObjs, transports, producers, consumers, budget>>
  /\ UNCHANGED roles

SendId(req) == 2 * req - 1

\* faulty variant of RecvId: the receive transport is stored under the id of the
\* send transport
RecvIdOfSend(req) == 2 * req - 1

RecvId(req) == 2 * req

NewTransport(room, dir) == [room |-> room, dir |-> dir, closed |-> FALSE, connected |-> FALSE]

\* router.createWebRtcTransport answered for the send transport
JoinSendTransportDone(t, ok) ==
  /\ t \in tasks /\ t.pc = "createSend"
  /\ ok => ~t.doomed
  /\ IF ok
       THEN /\ transports' = Extend(transports, SendId(t.req), NewTransport(t.room, "send"))
            /\ tasks' = (tasks \ {t}) \cup
                          {[t EXCEPT !.pc = "sendBitrate", !.sendT = SendId(t.req),
                                     !.doomed = RouterDead(t.room)]}
            /\ out' = << >>
       ELSE /\ JoinFail(t)
            /\ UNCHANGED transports
  /\ UNCHANGED <<ndtls, peerLeft, wvars, resumes,
                 sockState, ioRooms, rooms, roomObjs, peerObjs, producers, consumers, budget>>
  /\ UNCHANGED roles

\* sendTransport.setMaxIncomingBitrate answered
JoinSendBitrateDone(t, ok) ==
  /\ t \in tasks /\ t.pc = "sendBitrate"
  /\ ok => ~t.doomed
  /\ IF ok
       THEN /\ tasks' = (tasks \ {t}) \cup
                          {[t EXCEPT !.pc = "createRecv", !.doomed = RouterDead(t.room)]}
            /\ out' = << >>
       ELSE JoinFail(t)
  /\ UNCHANGED <<ndtls, peerLeft, wvars, resumes,
                 sockState, ioRooms, rooms, roomObjs, peerObjs, transports, producers,
                 consumers, budget>>
  /\ UNCHANGED roles

\* router.createWebRtcTransport answered for the receive transport
JoinRecvTransportDone(t, ok) ==
  /\ t \in tasks /\ t.pc = "createRecv"
  /\ ok => ~t.doomed
  /\ IF ok
       THEN /\ transports' = Extend(transports, RecvId(t.req), NewTransport(t.room, "recv"))
            /\ tasks' = (tasks \ {t}) \cup
                          {[t EXCEPT !.pc = "recvBitrate", !.recvT = RecvId(t.req),
                                     !.doomed = RouterDead(t.room)]}
            /\ out' = << >>
       ELSE /\ JoinFail(t)
            /\ UNCHANGED transports
  /\ UNCHANGED <<ndtls, peerLeft, wvars, resumes,
                 sockState, ioRooms, rooms, roomObjs, peerObjs, producers, consumers, budget>>
  /\ UNCHANGED roles

\* faulty variant of JoinedOut: the emit has no try/catch of its own, a throw
\* reaches the catch block of the handler
JoinedOutUncaught(t, peer, fault) ==
  << Faulted([NoEntry EXCEPT !.type = "emit", !.sock = t.sock, !.name = "peer-joined",
                             !.roomId = t.roomId, !.to = Recipients(t.roomId, t.sock),
                             !.peer = peer, !.peerId = t.peerId], fault),
     IF fault = -1
       THEN [AckError(t.sock, "join-room", EngineError) EXCEPT
               !.roomId = t.roomId, !.peerId = t.peerId, !.room = t.room,
               !.t1 = t.sendT, !.t2 = t.recvT]
       ELSE [AckOk(t.sock, "join-room") EXCEPT
               !.roomId = t.roomId, !.peerId = t.peerId, !.room = t.room,
               !.peer = peer, !.t1 = t.sendT, !.t2 = t.recvT] >>

\* what a join-room that has inserted its Peer sends: peer-joined, in a try/catch
\* of its own, then the reply
JoinedOut(t, peer, fault) ==
  << Faulted([NoEntry EXCEPT !.type = "emit", !.sock = t.sock, !.name = "peer-joined",
                             !.roomId = t.roomId, !.to = Recipients(t.roomId, t.sock),
                             !.peer = peer, !.peerId = t.peerId], fault),
     [AckOk(t.sock, "join-room") EXCEPT
        !.roomId = t.roomId, !.peerId = t.peerId, !.room = t.room,
        !.peer = peer, !.t1 = t.sendT, !.t2 = t.recvT] >>

\* recvTransport.setMaxIncomingBitrate answered: the Peer is built and inserted,
\* the socket joins the socket.io room, peer-joined is emitted, then the reply
JoinRecvBitrateDone(t, ok, fault) ==
  /\ t \in tasks /\ t.pc = "recvBitrate"
  /\ ok => ~t.doomed
  /\ fault \in (IF ok THEN {-1, 0} \cup Recipients(t.roomId, t.sock) ELSE {0})
  /\ IF ok
       THEN LET peer == t.req
            IN /\ peerObjs' = Extend(peerObjs, peer,
                                [id |-> t.peerId, socket |-> t.sock,
                                 transports |-> {t.sendT, t.recvT},
                                 producers |-> {}, consumers |-> {}, room |-> t.room])
               /\ roomObjs' = [roomObjs EXCEPT ![t.room].peers = MapSet(@, t.peerId, peer)]
               /\ ioRooms' = [ioRooms EXCEPT ![t.sock] = @ \cup {t.roomId}]
               /\ tasks' = tasks \ {t}
               /\ out' = JoinedOut(t, peer, fault)
       ELSE /\ JoinFail(t)
            /\ UNCHANGED <<peerObjs, roomObjs, ioRooms>>
  /\ UNCHANGED <<ndtls, peerLeft, wvars, resumes,
                 sockState, rooms, transports, producers, consumers, budget>>
  /\ UNCHANGED roles

(* ------------------------- closing transports ------------------------- *)
\* transport.close() on each transport of T: a closed transport stays as it is; an
\* open one closes its producers and consumers, whose 'transportclose' handlers
\* delete them from the maps of the peer that created them; a consumer whose
\* source producer closes is closed by the engine and stays in its peer's map
Closing(T) == {t \in T : ~transports[t].closed}

ProducersOn(T) == {p \in DOMAIN producers : producers[p].transport \in T}

ConsumersOn(T) == {c \in DOMAIN consumers : consumers[c].transport \in T}

TransportsAfterClose(T) ==
  [t \in DOMAIN transports |->
     IF t \in T THEN [transports[t] EXCEPT !.closed = TRUE] ELSE transports[t]]

ProducersAfterClose(T) ==
  [p \in DOMAIN producers |->
     IF p \in ProducersOn(Closing(T)) THEN [producers[p] EXCEPT !.closed = TRUE]
     ELSE producers[p]]

ConsumersAfterClose(T) ==
  [c \in DOMAIN consumers |->
     IF c \in ConsumersOn(Closing(T)) \/ consumers[c].producerId \in ProducersOn(Closing(T))
       THEN [consumers[c] EXCEPT !.closed = TRUE]
       ELSE consumers[c]]

\* faulty variant of onTransportClose: only the producers have a handler
onTransportCloseProducersOnly(P, C) ==
  [q \in DOMAIN peerObjs |->
     [peerObjs[q] EXCEPT !.producers = @ \ {p \in P : producers[p].peer = q}]]

\* the peers after the 'transportclose' handlers of the producers P and of the
\* consumers C have run: each deletes its id from the map of the peer that
\* created it
onTransportClose(P, C) ==
  [q \in DOMAIN peerObjs |->
     [peerObjs[q] EXCEPT
        !.producers = @ \ {p \in P : producers[p].peer = q},
        !.consumers = @ \ {c \in C : consumers[c].peer = q}]]

PeersAfterClose(T) == onTransportClose(ProducersOn(Closing(T)), ConsumersOn(Closing(T)))

\* the transport's dtlsstatechange handler, state 'closed': transport.close()
TransportDtlsClosed(tid) ==
  /\ tid \in DOMAIN transports
  /\ ~TransportDead(tid)
  /\ \E q \in DOMAIN peerObjs : tid \in peerObjs[q].transports
  /\ ndtls < MaxDtlsClosed
  /\ ndtls' = ndtls + 1
  /\ transports' = TransportsAfterClose({tid})
  /\ producers' = ProducersAfterClose({tid})
  /\ consumers' = ConsumersAfterClose({tid})
  /\ peerObjs' = PeersAfterClose({tid})
  /\ out' = << >>
  /\ UNCHANGED <<peerLeft, sockState, ioRooms, rooms, roomObjs, tasks, budget, wvars,
                 resumes>>
  /\ UNCHANGED roles

(* ------------------------------- produce ------------------------------ *)
\* faulty variant of transportsGet: the transport is looked up among all transports
transportsGetAny(peer, transportId) ==
  IF transportId \in DOMAIN transports THEN transportId ELSE 0

\* peer.transports.get(transportId); 0 for undefined
transportsGet(peer, transportId) ==
  IF transportId \in peerObjs[peer].transports THEN transportId ELSE 0

\* peer.consumers.get(consumerId); 0 for undefined
consumersGet(peer, consumerId) ==
  IF consumerId \in peerObjs[peer].consumers THEN consumerId ELSE 0

\* the checks of produce before its engine call: the error replied, "" for none
produceError(peer, transportId) ==
  IF peer = 0 THEN "Peer not found"
  ELSE IF transportsGet(peer, transportId) = 0 THEN "Transport not found"
  ELSE ""

Produce(s, transportId, kind) ==
  /\ CanSend(s)
  /\ budget > 0
  /\ budget' = budget - 1
  /\ sockState' = [sockState EXCEPT ![s] = "open"]
  /\ LET peer == getPeerBySocket(s)
         error == produceError(peer, transportId)
     IN IF error # ""
          THEN /\ out' = << [AckError(s, "produce", error) EXCEPT
                               !.peer = peer, !.t1 = transportId] >>
               /\ tasks' = tasks
          ELSE /\ tasks' = tasks \cup
                     {[NoTask EXCEPT !.req = NextId, !.method = "produce", !.sock = s,
                                     !.pc = "produce", !.peer = peer, !.transport = transportId,
                                     !.kind = kind, !.doomed = TransportDead(transportId)]}
               /\ out' = << >>
  /\ UNCHANGED <<ndtls, peerLeft, wvars, resumes, ioRooms, rooms, roomObjs, peerObjs, transports,
                 producers, consumers>>
  /\ UNCHANGED roles

\* transport.produce answered: the producer goes into the peer's map, new-producer
\* is emitted to the room getRoomByPeer finds, then the reply
ProduceDone(t, ok, fault) ==
  /\ t \in tasks /\ t.pc = "produce"
  /\ ok => ~t.doomed
  /\ fault \in (IF ok /\ getRoomByPeer(t.peer) # ""
                 THEN {-1, 0} \cup Recipients(getRoomByPeer(t.peer), t.sock) ELSE {0})
  /\ tasks' = tasks \ {t}
  /\ IF ok
       THEN LET pid == t.req
                roomId == getRoomByPeer(t.peer)
            IN /\ producers' = Extend(producers, pid, [kind |-> t.kind, transport |-> t.transport,
                                                  peer |-> t.peer, closed |-> FALSE])
               /\ peerObjs' = [peerObjs EXCEPT ![t.peer].producers = @ \cup {pid}]
               /\ out' =
                    (IF roomId # ""
                       THEN << Faulted([Emit(t.sock, "new-producer", roomId, t.peer) EXCEPT
                                          !.producer = pid], fault) >>
                       ELSE << >>) \o
                    << [AckOk(t.sock, "produce") EXCEPT !.peer = t.peer, !.producer = pid,
                                                        !.t1 = t.transport] >>
       ELSE /\ out' = << [AckError(t.sock, "produce", EngineError) EXCEPT
                                     !.peer = t.peer, !.t1 = t.transport] >>
            /\ UNCHANGED <<producers, peerObjs>>
  /\ UNCHANGED <<ndtls, peerLeft, wvars, resumes,
                 sockState, ioRooms, rooms, roomObjs, transports, consumers, budget>>
  /\ UNCHANGED roles

(* ------------------------------- consume ------------------------------ *)
\* router.canConsume: the router knows the producer and the capabilities fit
canConsume(room, producerId, capsOk) ==
  /\ capsOk
  /\ ~producers[producerId].closed
  /\ transports[producers[producerId].transport].room = room

\* faulty variant of consumeError: the handler does not ask router.canConsume
consumeErrorNoGate(peer, transportId, producerId, capsOk) ==
  IF peer = 0 THEN "Peer not found"
  ELSE IF transportId \notin peerObjs[peer].transports THEN "Transport not found"
  ELSE IF getPeerByProducerId(producerId) = 0 THEN "Producer peer not found"
  ELSE IF getRoomByPeer(peer) = "" THEN "Room not found"
  ELSE ""

\* the checks of consume before its engine call: the error replied, "" for none
consumeError(peer, transportId, producerId, capsOk) ==
  IF peer = 0 THEN "Peer not found"
  ELSE IF transportsGet(peer, transportId) = 0 THEN "Transport not found"
  ELSE IF getPeerByProducerId(producerId) = 0 THEN "Producer peer not found"
  ELSE IF getRoomByPeer(peer) = "" THEN "Room not found"
  ELSE IF ~canConsume(MapGet(rooms, getRoomByPeer(peer)), producerId, capsOk)
    THEN "Cannot consume"
  ELSE ""

\* faulty variant of consumeDoomed: a producer of any router can be consumed
consumeDoomedAnyRouter(transportId, producerId) ==
  TransportDead(transportId) \/ TransportDead(producers[producerId].transport)

\* transport.consume is rejected by the engine: the transport or the producer's
\* transport is gone, or the transport's router does not have the producer
consumeDoomed(transportId, producerId) ==
  \/ TransportDead(transportId)
  \/ TransportDead(producers[producerId].transport)
  \/ transports[transportId].room # transports[producers[producerId].transport].room

Consume(s, transportId, producerId, capsOk) ==
  /\ CanSend(s)
  /\ budget > 0
  /\ budget' = budget - 1
  /\ sockState' = [sockState EXCEPT ![s] = "open"]
  /\ LET peer == getPeerBySocket(s)
         error == consumeError(peer, transportId, producerId, capsOk)
     IN IF error # ""
          THEN /\ out' = << [AckError(s, "consume", error) EXCEPT
                               !.peer = peer, !.t1 = transportId, !.producer = producerId] >>
               /\ tasks' = tasks
          ELSE /\ tasks' = tasks \cup
                     {[NoTask EXCEPT !.req = NextId, !.method = "consume", !.sock = s,
                                     !.pc = "consume", !.peer = peer, !.transport = transportId,
                                     !.producerId = producerId, !.capsOk = capsOk,
                                     !.doomed = consumeDoomed(transportId, producerId)]}
               /\ out' = << >>
  /\ UNCHANGED <<ndtls, peerLeft, wvars, resumes, ioRooms, rooms, roomObjs, peerObjs, transports,
                 producers, consumers>>
  /\ UNCHANGED roles

\* transport.consume answered: the consumer goes into the peer's map, then the reply
ConsumeDone(t, ok) ==
  /\ t \in tasks /\ t.pc = "consume"
  /\ ok => ~t.doomed
  /\ tasks' = tasks \ {t}
  /\ IF ok
       THEN LET cid == t.req
            IN /\ consumers' = Extend(consumers, cid, [producerId |-> t.producerId,
                                                  transport |-> t.transport,
                                                  peer |-> t.peer, closed |-> FALSE])
               /\ peerObjs' = [peerObjs EXCEPT ![t.peer].consumers = @ \cup {cid}]
               /\ resumes' = Extend(resumes, cid, 0)
               /\ out' = << [AckOk(t.sock, "consume") EXCEPT
                                        !.peer = t.peer, !.producer = t.producerId,
                                        !.consumer = cid, !.t1 = t.transport] >>
       ELSE /\ out' = << [AckError(t.sock, "consume", EngineError) EXCEPT
                                     !.peer = t.peer, !.producer = t.producerId,
                                     !.t1 = t.transport] >>
            /\ UNCHANGED <<consumers, peerObjs, resumes>>
  /\ UNCHANGED <<ndtls, peerLeft, wvars,
                 sockState, ioRooms, rooms, roomObjs, transports, producers, budget>>
  /\ UNCHANGED roles

(* -------------------------- connect-transport ------------------------- *)
\* the checks of connect-transport before its engine call; dtls: dtlsParameters given
connectError(peer, transportId, dtls) ==
  IF ~dtls THEN "dtlsParameters is required"
  ELSE IF peer = 0 THEN "Peer not found"
  ELSE IF transportsGet(peer, transportId) = 0 THEN "Transport not found"
  ELSE ""

ConnectTransport(s, transportId, dtls) ==
  /\ CanSend(s)
  /\ budget > 0
  /\ budget' = budget - 1
  /\ sockState' = [sockState EXCEPT ![s] = "open"]
  /\ LET peer == getPeerBySocket(s)
         error == connectError(peer, transportId, dtls)
     IN IF error # ""
          THEN /\ out' = << [AckError(s, "connect-transport", error) EXCEPT
                               !.peer = peer, !.t1 = transportId] >>
               /\ tasks' = tasks
          ELSE /\ tasks' = tasks \cup
                     {[NoTask EXCEPT !.req = NextId, !.method = "connect-transport",
                                     !.sock = s, !.pc = "connect", !.peer = peer,
                                     !.transport = transportId,
                                     !.doomed = TransportDead(transportId)]}
               /\ out' = << >>
  /\ UNCHANGED <<ndtls, peerLeft, wvars, resumes, ioRooms, rooms, roomObjs, peerObjs, transports,
                 producers, consumers>>
  /\ UNCHANGED roles

\* transport.connect answered; the engine accepts one connect per transport
ConnectTransportDone(t, ok) ==
  /\ t \in tasks /\ t.pc = "connect"
  /\ ok => ~t.doomed /\ ~transports[t.transport].connected
  /\ tasks' = tasks \ {t}
  /\ IF ok
       THEN /\ transports' = [transports EXCEPT ![t.transport].connected = TRUE]
            /\ out' = << [AckOk(t.sock, "connect-transport") EXCEPT
                            !.peer = t.peer, !.t1 = t.transport] >>
       ELSE /\ out' = << [AckError(t.sock, "connect-transport", EngineError) EXCEPT
                            !.peer = t.peer, !.t1 = t.transport] >>
            /\ UNCHANGED transports
  /\ UNCHANGED <<ndtls, peerLeft, wvars, resumes, sockState, ioRooms, rooms, roomObjs, peerObjs,
                 producers, consumers, budget>>
  /\ UNCHANGED roles

(* --------------------------- resume-consumer -------------------------- *)
resumeError(peer, consumerId) ==
  IF peer = 0 THEN "Peer not found"
  ELSE IF consumersGet(peer, consumerId) = 0 THEN "Consumer not found"
  ELSE ""

ResumeConsumer(s, consumerId) ==
  /\ CanSend(s)
  /\ budget > 0
  /\ budget' = budget - 1
  /\ sockState' = [sockState EXCEPT ![s] = "open"]
  /\ LET peer == getPeerBySocket(s)
         error == resumeError(peer, consumerId)
     IN IF error # ""
          THEN /\ out' = << [AckError(s, "resume-consumer", error) EXCEPT
                               !.peer = peer, !.consumer = consumerId] >>
               /\ tasks' = tasks
          ELSE /\ tasks' = tasks \cup
                     {[NoTask EXCEPT !.req = NextId, !.method = "resume-consumer",
                                     !.sock = s, !.pc = "resume", !.peer = peer,
                                     !.consumerId = consumerId,
                                     !.doomed = \/ consumers[consumerId].closed
                                                \/ TransportDead(consumers[consumerId].transport)]}
               /\ out' = << >>
  /\ UNCHANGED <<ndtls, peerLeft, wvars, resumes, ioRooms, rooms, roomObjs, peerObjs, transports,
                 producers, consumers>>
  /\ UNCHANGED roles

\* faulty variant of ResumeConsumerDone: a consumer that was resumed is dropped
\* from the consumers map of its peer
ResumeConsumerDoneOnce(t, ok) ==
  /\ t \in tasks /\ t.pc = "resume"
  /\ ok => ~t.doomed
  /\ tasks' = tasks \ {t}
  /\ out' = << IF ok
                 THEN [AckOk(t.sock, "resume-consumer") EXCEPT
                         !.peer = t.peer, !.consumer = t.consumerId]
                 ELSE [AckError(t.sock, "resume-consumer", EngineError) EXCEPT
                         !.peer = t.peer, !.consumer = t.consumerId] >>
  /\ resumes' = IF ok THEN [resumes EXCEPT ![t.consumerId] = @ + 1] ELSE resumes
  /\ peerObjs' = IF ok THEN [peerObjs EXCEPT ![t.peer].consumers = @ \ {t.consumerId}]
                 ELSE peerObjs
  /\ UNCHANGED <<ndtls, peerLeft, sockState, ioRooms, rooms, roomObjs,
                 transports, producers, consumers, budget, wvars>>
  /\ UNCHANGED roles

\* consumer.resume answered: consumers are created running, nothing changes
ResumeConsumerDone(t, ok) ==
  /\ t \in tasks /\ t.pc = "resume"
  /\ ok => ~t.doomed
  /\ tasks' = tasks \ {t}
  /\ out' = << IF ok
                 THEN [AckOk(t.sock, "resume-consumer") EXCEPT
                         !.peer = t.peer, !.consumer = t.consumerId]
                 ELSE [AckError(t.sock, "resume-consumer", EngineError) EXCEPT
                         !.peer = t.peer, !.consumer = t.consumerId] >>
  /\ resumes' = IF ok THEN [resumes EXCEPT ![t.consumerId] = @ + 1] ELSE resumes
  /\ UNCHANGED <<ndtls, peerLeft, sockState, ioRooms, rooms, roomObjs, peerObjs,
                 transports, producers, consumers, budget, wvars>>
  /\ UNCHANGED roles

(* ---------------------------- get-producers --------------------------- *)
\* the list the handler builds from the Room getRoomByPeer finds
listProducers(peer) ==
  LET ps == roomObjs[MapGet(rooms, getRoomByPeer(peer))].peers
  IN UNION {{<<ps[i].key, p, producers[p].kind>> : p \in peerObjs[ps[i].val].producers} :
              i \in {k \in DOMAIN ps : ps[k].key # peerObjs[peer].id}}

GetProducers(s) ==
  /\ CanSend(s)
  /\ budget > 0
  /\ budget' = budget - 1
  /\ sockState' = [sockState EXCEPT ![s] = "open"]
  /\ LET peer == getPeerBySocket(s)
     IN out' = <<
                 IF peer = 0 THEN AckError(s, "get-producers", "Peer not found")
                 ELSE IF getRoomByPeer(peer) = ""
                   THEN AckError(s, "get-producers", "Room not found")
                   ELSE [AckOk(s, "get-producers") EXCEPT
                           !.peer = peer, !.listed = listProducers(peer)] >>
  /\ UNCHANGED <<ndtls, peerLeft, wvars, resumes,
                 ioRooms, rooms, roomObjs, peerObjs, transports,
                 producers, consumers, tasks>>
  /\ UNCHANGED roles

(* -------------------------- malformed request ------------------------- *)
\* the methods whose handler destructures its first argument in its parameter list
PayloadMethods == {"join-room", "connect-transport", "produce", "consume", "resume-consumer"}

\* A request whose payload is null: the destructuring `({...}, callback)` throws
\* before the handler's try block is entered, so neither the checks (the callback
\* check among them) nor the catch block run and the async handler's promise is
\* rejected with nobody to handle it.  callback: the request carried a function
\* to acknowledge it with.
\* The model follows the runs in which the process keeps running after that.
MalformedRequest(s, name, callback) ==
  /\ CanSend(s)
  /\ budget > 0
  /\ budget' = budget - 1
  /\ sockState' = [sockState EXCEPT ![s] = "open"]
  /\ out' = << [NoEntry EXCEPT !.type = "throw", !.sock = s, !.name = name,
                               !.callback = callback] >>
  /\ UNCHANGED <<ndtls, peerLeft, wvars, resumes, ioRooms, rooms, roomObjs, peerObjs, transports,
                 producers, consumers, tasks>>
  /\ UNCHANGED roles

Methods == PayloadMethods \cup {"get-producers"}

\* A request with a payload and without a function as its callback: the first
\* check of every handler logs and returns
DroppedRequest(s, name) ==
  /\ CanSend(s)
  /\ budget > 0
  /\ budget' = budget - 1
  /\ sockState' = [sockState EXCEPT ![s] = "open"]
  /\ out' = << [NoEntry EXCEPT !.type = "drop", !.sock = s, !.name = name,
                               !.callback = FALSE] >>
  /\ UNCHANGED <<ndtls, peerLeft, wvars, resumes, ioRooms, rooms, roomObjs, peerObjs, transports,
                 producers, consumers, tasks>>
  /\ UNCHANGED roles

(* ----------------------------- disconnect ----------------------------- *)
\* the socket leaves its socket.io rooms, then handlePeerDisconnect; out lists the
\* handler's operations and its emission in the order of the code
Disconnect(s, fault) ==
  /\ sockState[s] = "open"
  /\ fault \in (IF getPeerBySocket(s) # 0
                 THEN {-1, 0} \cup Recipients(getRoomByPeer(getPeerBySocket(s)), s) ELSE {0})
  /\ budget > 0
  /\ budget' = budget - 1
  /\ sockState' = [sockState EXCEPT ![s] = "closed"]
  /\ ioRooms' = [ioRooms EXCEPT ![s] = {}]
  /\ LET peer == getPeerBySocket(s)
         roomId == getRoomByPeer(peer)
         room == MapGet(rooms, roomId)
         left == MapDelete(roomObjs[room].peers, peerObjs[peer].id)
         empty == left = << >>
         T == peerObjs[peer].transports \cup
              (IF empty THEN {t \in DOMAIN transports : transports[t].room = room} ELSE {})
     IN IF peer = 0
          THEN /\ out' = << >>
               /\ UNCHANGED <<rooms, roomObjs, peerObjs, transports, producers,
                              consumers, peerLeft>>
          ELSE /\ transports' = TransportsAfterClose(T)
               /\ producers' = ProducersAfterClose(T)
               /\ consumers' = ConsumersAfterClose(T)
               /\ peerObjs' = PeersAfterClose(T)
               /\ roomObjs' = [roomObjs EXCEPT ![room].peers = left, ![room].closed = @ \/ empty]
               /\ rooms' = IF empty THEN MapDelete(rooms, roomId) ELSE rooms
               /\ peerLeft' = peerLeft \cup {peer}
               /\ out' =
                    << Step("close-transports", room, peer), Step("remove-peer", room, peer),
                       Faulted([NoEntry EXCEPT !.type = "emit", !.sock = s, !.name = "peer-left",
                                               !.roomId = roomId, !.room = room,
                                               !.peer = peer, !.peerId = peerObjs[peer].id,
                                               !.to = Recipients(roomId, s)], fault) >> \o
                    (IF empty
                       THEN << Step("close-router", room, peer), Step("delete-room", room, peer) >>
                       ELSE << >>)
  /\ UNCHANGED <<tasks, ndtls, wvars, resumes>>
  /\ UNCHANGED roles

(* ------------------------------ the process --------------------------- *)
\* faulty variant of WorkerDied: the death is logged and no exit is scheduled
WorkerDiedLogged(w) ==
  /\ exitTimers' = exitTimers

\* the 'died' handler of the worker: console.error, then setTimeout(exit, 2000)
WorkerDiedHandler(w) ==
  /\ exitTimers' = exitTimers + 1

\* Worker w dies.  The engine closes the routers of the worker and, with them,
\* their transports, producers and consumers ('transportclose' deletes those from
\* the maps of their peers); the Rooms stay registered.  Then the 'died' handler.
WorkerDied(w) ==
  /\ ~exited
  /\ w \in getNextWorker
  /\ workers[w] = "alive"
  /\ budget > 0
  /\ budget' = budget - 1
  /\ workers' = [workers EXCEPT ![w] = "dead"]
  /\ LET R == {r \in DOMAIN roomObjs : roomObjs[r].worker = w}
         T == {t \in DOMAIN transports : transports[t].room \in R}
     IN /\ roomObjs' = [r \in DOMAIN roomObjs |->
                          IF r \in R THEN [roomObjs[r] EXCEPT !.closed = TRUE]
                          ELSE roomObjs[r]]
        /\ transports' = TransportsAfterClose(T)
        /\ producers' = ProducersAfterClose(T)
        /\ consumers' = ConsumersAfterClose(T)
        /\ peerObjs' = PeersAfterClose(T)
  /\ WorkerDiedHandler(w)
  /\ out' = << >>
  /\ UNCHANGED <<sockState, ioRooms, rooms, tasks, ndtls, peerLeft, exited, resumes>>
  /\ UNCHANGED roles

\* An exit timer fires: process.exit(1).  The process is gone, and with it its
\* memory, its suspended handlers and the connections of its sockets.
ProcessExit ==
  /\ ~exited
  /\ exitTimers > 0
  /\ exited' = TRUE
  /\ exitTimers' = 0
  /\ sockState' = [s \in Sockets |-> "closed"]
  /\ ioRooms' = [s \in Sockets |-> {}]
  /\ rooms' = << >>
  /\ roomObjs' = None
  /\ peerObjs' = None
  /\ transports' = None
  /\ producers' = None
  /\ consumers' = None
  /\ resumes' = None
  /\ tasks' = {}
  /\ peerLeft' = {}
  /\ out' = << >>
  /\ UNCHANGED <<workers, budget, ndtls>>
  /\ UNCHANGED roles

(* ------------------------------ behaviour ----------------------------- *)
Next ==
  \/ \E s \in Sockets, roomId \in RoomIds \cup {""}, peerId \in PeerIds \cup {""},
        w \in DOMAIN workers : JoinRoom(s, roomId, peerId, w)
  \/ \E t \in tasks, ok \in BOOLEAN : JoinRouterDone(t, ok)
  \/ \E t \in tasks, ok \in BOOLEAN : JoinSendTransportDone(t, ok)
  \/ \E t \in tasks, ok \in BOOLEAN : JoinSendBitrateDone(t, ok)
  \/ \E t \in tasks, ok \in BOOLEAN : JoinRecvTransportDone(t, ok)
  \/ \E t \in tasks, ok \in BOOLEAN, fault \in EmitFaults : JoinRecvBitrateDone(t, ok, fault)
  \/ \E s \in Sockets, tid \in DOMAIN transports \cup {0}, kind \in Kinds : Produce(s, tid, kind)
  \/ \E t \in tasks, ok \in BOOLEAN, fault \in EmitFaults : ProduceDone(t, ok, fault)
  \/ \E s \in Sockets, tid \in DOMAIN transports \cup {0}, pid \in DOMAIN producers \cup {0},
        capsOk \in BOOLEAN : Consume(s, tid, pid, capsOk)
  \/ \E t \in tasks, ok \in BOOLEAN : ConsumeDone(t, ok)
  \/ \E s \in Sockets, tid \in DOMAIN transports \cup {0}, dtls \in BOOLEAN :
        ConnectTransport(s, tid, dtls)
  \/ \E t \in tasks, ok \in BOOLEAN : ConnectTransportDone(t, ok)
  \/ \E s \in Sockets, cid \in DOMAIN consumers \cup {0} : ResumeConsumer(s, cid)
  \/ \E t \in tasks, ok \in BOOLEAN : ResumeConsumerDone(t, ok)
  \/ \E s \in Sockets : GetProducers(s)
  \/ \E s \in Sockets, name \in PayloadMethods, callback \in BOOLEAN :
        MalformedRequest(s, name, callback)
  \/ \E s \in Sockets, name \in Methods : DroppedRequest(s, name)
  \/ \E s \in Sockets, fault \in EmitFaults : Disconnect(s, fault)
  \/ \E tid \in DOMAIN transports : TransportDtlsClosed(tid)
  \/ \E w \in DOMAIN workers : WorkerDied(w)
  \/ ProcessExit

Spec == Init /\ [][Next]_vars

SpecPopulated == InitPopulated /\ [][Next]_vars

\* a timer that was set fires: the event loop runs the callback of every timer
\* that is due
SpecTimers == InitPopulated /\ [][Next]_vars /\ WF_vars(ProcessExit)

\* a step of the media engine: a call that a suspended handler awaits settles
EngineSettles ==
  \/ \E t \in tasks, ok \in BOOLEAN : JoinRouterDone(t, ok)
  \/ \E t \in tasks, ok \in BOOLEAN : JoinSendTransportDone(t, ok)
  \/ \E t \in tasks, ok \in BOOLEAN : JoinSendBitrateDone(t, ok)
  \/ \E t \in tasks, ok \in BOOLEAN : JoinRecvTransportDone(t, ok)
  \/ \E t \in tasks, ok \in BOOLEAN, fault \in EmitFaults : JoinRecvBitrateDone(t, ok, fault)
  \/ \E t \in tasks, ok \in BOOLEAN, fault \in EmitFaults : ProduceDone(t, ok, fault)
  \/ \E t \in tasks, ok \in BOOLEAN : ConsumeDone(t, ok)
  \/ \E t \in tasks, ok \in BOOLEAN : ConnectTransportDone(t, ok)
  \/ \E t \in tasks, ok \in BOOLEAN : ResumeConsumerDone(t, ok)

\* every call to the media engine settles, and a timer that was set fires
SpecFair == Init /\ [][Next]_vars /\ WF_vars(EngineSettles) /\ WF_vars(ProcessExit)

(* --------------------------- the relay server ------------------------- *)
(* The role-based relay server is a program of its own: its state is the   *)
(* sockets, the socket.io rooms they joined (ioRooms) and socket.data.role *)
(* (roles); its handlers have no await, each is one step.  What it sends   *)
(* is in out: entries of type "relay", one for each emit call, with the    *)
(* sockets the call delivers to.  The variables of the SFU server stay as  *)
(* they are.                                                               *)
sfuVars == <<rooms, roomObjs, peerObjs, transports, producers, consumers, tasks, ndtls,
             peerLeft, workers, exitTimers, exited, resumes>>

RelayRoomIds == {"r1"}

RelayRoles == {"moderator", "user"}

\* io.sockets.adapter.rooms.get(roomId) || new Set()
Clients(roomId) == {x \in Sockets : roomId \in ioRooms[x]}

Relay(s, name, to) == [NoEntry EXCEPT !.type = "relay", !.sock = s, !.name = name, !.to = to]

\* one emit to each socket of S, each carrying e (in the order of the socket numbers)
EachOf(S, e) ==
  SelectSeq([x \in 1..RelaySockets |-> [e EXCEPT !.to = {x}]], LAMBDA y : y.to \subseteq S)

\* A relay server after three requests: sockets 1 and 2 joined r1 as moderators,
\* socket 3 as user; sockets 4 and 5 are connected and have sent nothing.
InitRelay ==
  /\ sockState = [s \in 1..RelaySockets |-> "open"]
  /\ ioRooms = [s \in 1..RelaySockets |-> IF s <= 3 THEN {"r1"} ELSE {}]
  /\ roles = [s \in 1..RelaySockets |->
                IF s <= 2 THEN "moderator" ELSE IF s = 3 THEN "user" ELSE ""]
  /\ budget = MaxRelayRequests
  /\ out = << >>
  /\ rooms = << >>
  /\ roomObjs = None
  /\ peerObjs = None
  /\ transports = None
  /\ producers = None
  /\ consumers = None
  /\ resumes = None
  /\ tasks = {}
  /\ ndtls = 0
  /\ peerLeft = {}
  /\ workers = [w \in 1..NumWorkers |-> "alive"]
  /\ exitTimers = 0
  /\ exited = FALSE

\* faulty variant of RelayFull: one more socket is let in
RelayFullOffByOne(roomId) == Cardinality(Clients(roomId)) > MAX_USERS

\* clients.size >= MAX_USERS
RelayFull(roomId) == Cardinality(Clients(roomId)) >= MAX_USERS

\* faulty variant of ModeratorSockets: every member is notified
ModeratorSocketsAll(roomId, roleOf) == Clients(roomId)

\* the sockets of the room whose role is 'moderator'; roleOf: socket.data.role of
\* each socket when the filter runs
ModeratorSockets(roomId, roleOf) == {x \in Clients(roomId) : roleOf[x] = "moderator"}

\* join-room: the role is stored before the capacity is looked at
RelayJoin(s, roomId, role) ==
  /\ sockState[s] = "open"
  /\ budget > 0
  /\ budget' = budget - 1
  /\ roles' = [roles EXCEPT ![s] = role]
  /\ IF RelayFull(roomId)
       THEN /\ out' = << [Relay(s, "room-full", {s}) EXCEPT !.roomId = roomId] >>
            /\ UNCHANGED ioRooms
       ELSE /\ ioRooms' = [ioRooms EXCEPT ![s] = @ \cup {roomId}]
            /\ out' = << [Relay(s, "joined-room", {s}) EXCEPT !.roomId = roomId,
                                                              !.role = role] >> \o
                      (IF role = "user"
                         THEN EachOf(ModeratorSockets(roomId, roles'),
                                     [Relay(s, "user-joined", {}) EXCEPT !.roomId = roomId])
                         ELSE << >>)
  /\ UNCHANGED <<sockState, sfuVars>>

\* offer: the branch is chosen by data.fromRole, a field of the message
RelayOffer(s, roomId, fromRole) ==
  /\ sockState[s] = "open"
  /\ budget > 0
  /\ budget' = budget - 1
  /\ out' = IF fromRole = "user"
              THEN EachOf(ModeratorSockets(roomId, roles) \ {s},
                          [Relay(s, "offer", {}) EXCEPT !.roomId = roomId, !.role = fromRole])
            ELSE IF fromRole = "moderator"
              THEN << [Relay(s, "offer", Clients(roomId) \ {s}) EXCEPT
                         !.roomId = roomId, !.role = fromRole] >>
            ELSE << >>
  /\ UNCHANGED <<sockState, ioRooms, roles, sfuVars>>

\* answer and ice-candidate: socket.to(data.to).emit; data.to is the id of a socket
\* (every socket is alone in the room of its own id) or, with roomId given, a room
RelayTo(s, name, to, roomId) ==
  /\ sockState[s] = "open"
  /\ budget > 0
  /\ budget' = budget - 1
  /\ out' = << IF roomId # ""
                 THEN [Relay(s, name, Clients(roomId) \ {s}) EXCEPT !.roomId = roomId]
                 ELSE Relay(s, name, {x \in {to} \ {s} : sockState[x] = "open"}) >>
  /\ UNCHANGED <<sockState, ioRooms, roles, sfuVars>>

RelayAnswer(s, to, roomId) == RelayTo(s, "answer", to, roomId)

RelayIceCandidate(s, to, roomId) == RelayTo(s, "ice-candidate", to, roomId)

\* disconnect: socket.io takes the socket out of its rooms; the handler logs
RelayDisconnect(s) ==
  /\ sockState[s] = "open"
  /\ budget > 0
  /\ budget' = budget - 1
  /\ sockState' = [sockState EXCEPT ![s] = "closed"]
  /\ ioRooms' = [ioRooms EXCEPT ![s] = {}]
  /\ out' = << >>
  /\ UNCHANGED <<roles, sfuVars>>

NextRelay ==
  \/ \E s \in Sockets, roomId \in RelayRoomIds, role \in RelayRoles : RelayJoin(s, roomId, role)
  \/ \E s \in Sockets, roomId \in RelayRoomIds, fromRole \in RelayRoles \cup {""} :
        RelayOffer(s, roomId, fromRole)
  \/ \E s \in Sockets, to \in Sockets, roomId \in RelayRoomIds \cup {""} :
        RelayAnswer(s, to, roomId)
  \/ \E s \in Sockets, to \in Sockets, roomId \in RelayRoomIds \cup {""} :
        RelayIceCandidate(s, to, roomId)
  \/ \E s \in Sockets : RelayDisconnect(s)

SpecRelay == InitRelay /\ [][NextRelay]_vars

(* ------------------------------ vocabulary ---------------------------- *)
\* the Room object is the one the registry holds under some roomId
Registered(room) == \E i \in DOMAIN rooms : rooms[i].val = room

\* the peer object is an entry of the peers Map of a registered Room
Member(q) == \E i \in DOMAIN rooms : q \in RoomPeers(rooms[i].val)

\* joined peer sessions: join-room was acknowledged with success (the step that
\* builds the peer object) and the socket has not disconnected
Sessions == {q \in DOMAIN peerObjs : sockState[peerObjs[q].socket] = "open"}

\* a producer that is not closed, on a transport that is not closed
Live(p) == ~producers[p].closed /\ ~TransportDead(producers[p].transport)

JoinInProgress(roomId) == \E t \in tasks : t.method = "join-room" /\ t.roomId = roomId

(* -------------------------------- claims ------------------------------ *)
\* C1: interleaved join-room requests for one new roomId create exactly one Room
\* with one Router: at no time do two Room objects with an open Router exist for
\* the same roomId.
C1_OneRoomPerRoomId ==
  \A x, y \in DOMAIN roomObjs :
    (roomObjs[x].id = roomObjs[y].id /\ ~roomObjs[x].closed /\ ~roomObjs[y].closed) => x = y

\* C2: peer uniqueness: in one Room, at most one joined peer session (socket)
\* holds a given peer id.
C2_PeerUniqueness ==
  \A q1, q2 \in Sessions :
    (/\ peerObjs[q1].room = peerObjs[q2].room
     /\ peerObjs[q1].id = peerObjs[q2].id) => peerObjs[q1].socket = peerObjs[q2].socket

\* C3: no self-consume: every consumer created by a successful consume has a
\* source producer owned by another peer than the consuming one.
C3_NoSelfConsume ==
  \A c \in DOMAIN consumers : producers[consumers[c].producerId].peer # consumers[c].peer

\* C4: event ordering for produce: when new-producer for P goes out to the other
\* peers, the acknowledgment {id: P} has been sent before it.
C4_AckBeforeNewProducer ==
  \A i \in DOMAIN out :
    (out[i].type = "emit" /\ out[i].name = "new-producer" /\ out[i].to # {}) =>
      \E j \in 1..(i - 1) :
        /\ out[j].type = "ack" /\ out[j].name = "produce" /\ out[j].ok
        /\ out[j].producer = out[i].producer

\* C5: room life equals peer life: a registered Room has a peer or a join-room in
\* progress for its id, and a Room object that holds a peer is registered.
C5_RoomLifeIsPeerLife ==
  /\ \A i \in DOMAIN rooms :
       roomObjs[rooms[i].val].peers # << >> \/ JoinInProgress(rooms[i].key)
  /\ \A r \in DOMAIN roomObjs : roomObjs[r].peers # << >> => Registered(r)

\* C6: join rollback: when join-room replies with an error after the Room was
\* acquired, every transport the handler created is closed.
C6_JoinRollback ==
  \A i \in DOMAIN out :
    (out[i].type = "ack" /\ out[i].name = "join-room" /\ ~out[i].ok /\ out[i].room # 0) =>
      /\ out[i].t1 # 0 => transports[out[i].t1].closed
      /\ out[i].t2 # 0 => transports[out[i].t2].closed

\* C7: cancellation by disconnect: once a socket has disconnected and none of its
\* handlers is suspended any more, no peer of a registered Room holds that socket.
C7_DisconnectCancels ==
  \A q \in DOMAIN peerObjs :
    (/\ Member(q)
     /\ sockState[peerObjs[q].socket] = "closed")
      => \E t \in tasks : t.sock = peerObjs[q].socket

\* C8: late-joiner completeness: get-producers of a joined peer Y of Room R is
\* acknowledged with exactly the live producers of the peers of R other than Y.
ExpectedProducers(y) ==
  {<<peerObjs[producers[p].peer].id, p, producers[p].kind>> :
     p \in {x \in DOMAIN producers :
              /\ Live(x)
              /\ producers[x].peer # y
              /\ producers[x].peer \in RoomPeers(peerObjs[y].room)}}

C8_GetProducersExact ==
  \A i \in DOMAIN out :
    (out[i].type = "ack" /\ out[i].name = "get-producers") =>
      \A y \in Sessions :
        peerObjs[y].socket = out[i].sock =>
          out[i].ok /\ out[i].listed = ExpectedProducers(y)

\* C9: producer ownership: every producer that is not closed is in the producers
\* map of a peer that is a member of a registered Room.
C9_ProducerOwnership ==
  \A p \in DOMAIN producers :
    Live(p) => \E q \in DOMAIN peerObjs : p \in peerObjs[q].producers /\ Member(q)

\* C10: teardown atomicity: after peer-left for a peer session has been emitted,
\* no further event about that session reaches any peer.
C10_NothingAfterPeerLeft ==
  \A i \in DOMAIN out :
    (out[i].type = "emit" /\ out[i].name # "peer-left" /\ out[i].to # {}) =>
      out[i].peer \notin peerLeft

\* the sockets of the other peers that are members of q's Room and can be reached
Audience(q) ==
  {peerObjs[x].socket :
     x \in {y \in RoomPeers(peerObjs[q].room) :
              /\ y # q
              /\ peerObjs[y].socket # peerObjs[q].socket
              /\ sockState[peerObjs[y].socket] = "open"}}

NumAcks(seq) == Cardinality({i \in DOMAIN seq : seq[i].type = "ack"})

\* the step receives a request (no socket disconnects and no worker dies in it)
\* that carries a callback
ReceivedWithCallback ==
  /\ budget' # budget
  /\ workers' = workers
  /\ sockState' = [s \in Sockets |-> IF sockState[s] = "new" /\ sockState'[s] = "open"
                                       THEN "open" ELSE sockState[s]]
  /\ \A i \in DOMAIN out' : out'[i].callback

\* C11: teardown order: peer-left for Q is emitted only after every teardown
\* step of the disconnect handler: closing Q's transports, removing Q from the
\* Room and, when the Room is left empty, closing the Router and removing the Room.
C11_TeardownOrder ==
  \A i \in DOMAIN out :
    (out[i].type = "emit" /\ out[i].name = "peer-left") =>
      \A j \in DOMAIN out : out[j].type = "step" => j < i

\* C12: exactly-once acknowledgment: every request received is either answered in
\* the step that receives it or leaves one suspended handler, and a handler that
\* ends answers once: requests received plus handlers suspended before a step
\* equal handlers suspended plus acknowledgments sent after it.
C12_ExactlyOnceAck ==
  [][(IF ReceivedWithCallback THEN 1 ELSE 0) + Cardinality(tasks)
       = Cardinality(tasks') + NumAcks(out')]_vars

\* C13: a request acknowledged with a validation error (missing argument, duplicate
\* peer id, unknown transport, producer or consumer id) leaves the registry and
\* every Room, Peer, transport, producer and consumer unchanged.
ValidationErrors ==
  {"roomId and peerId are required", "Peer already exists in room",
   "dtlsParameters is required", "Transport not found", "Producer peer not found",
   "Consumer not found"}

C13_ValidationNoMutation ==
  [][(\E i \in DOMAIN out' : out'[i].type = "ack" /\ out'[i].error \in ValidationErrors)
       => UNCHANGED <<rooms, roomObjs, peerObjs, transports, producers, consumers>>]_vars

\* a joined peer was answered 'Peer already exists in room' for its own Room
C13_Witness ==
  \E i \in DOMAIN out :
    /\ out[i].error = "Peer already exists in room"
    /\ MapHas(roomObjs[out[i].room].peers, out[i].peerId)

\* C14: transport direction: no Producer lives on a receive transport and no
\* Consumer lives on a send transport.
C14_TransportDirection ==
  /\ \A p \in DOMAIN producers : transports[producers[p].transport].dir = "send"
  /\ \A c \in DOMAIN consumers : transports[consumers[c].transport].dir = "recv"

C16_Ownership ==
  /\ \A t \in tasks :
       /\ t.method \in {"connect-transport", "produce", "consume"} =>
            peerObjs[t.peer].socket = t.sock /\ t.transport \in peerObjs[t.peer].transports
       /\ t.method = "resume-consumer" =>
            peerObjs[t.peer].socket = t.sock /\ consumers[t.consumerId].peer = t.peer
  /\ \A i \in DOMAIN out :
       (out[i].type = "ack" /\ out[i].ok) =>
         /\ out[i].name \in {"connect-transport", "produce", "consume"} =>
              /\ peerObjs[out[i].peer].socket = out[i].sock
              /\ out[i].t1 \in peerObjs[out[i].peer].transports
         /\ out[i].name = "resume-consumer" =>
              /\ peerObjs[out[i].peer].socket = out[i].sock
              /\ consumers[out[i].consumer].peer = out[i].peer
  /\ \A p \in DOMAIN producers : producers[p].transport \in peerObjs[producers[p].peer].transports
  /\ \A c \in DOMAIN consumers : consumers[c].transport \in peerObjs[consumers[c].peer].transports

\* a request naming a transport of another peer was answered 'Transport not found'
C16_Witness ==
  \E i \in DOMAIN out :
    /\ out[i].error = "Transport not found"
    /\ out[i].t1 \in DOMAIN transports
    /\ \E q \in DOMAIN peerObjs : q # out[i].peer /\ out[i].t1 \in peerObjs[q].transports

\* C17: capability gate: transport.consume is called only when the router of the
\* Room the handler resolved reported canConsume = true, and a consume answered
\* 'Cannot consume' leaves every consumers map unchanged and calls no engine.
C17_CapabilityGate ==
  [][/\ \A t \in tasks' \ tasks :
          t.method = "consume" =>
            canConsume(MapGet(rooms, getRoomByPeer(t.peer)), t.producerId, t.capsOk)
     /\ (\E i \in DOMAIN out' : out'[i].type = "ack" /\ out'[i].error = "Cannot consume")
          => UNCHANGED <<consumers, peerObjs, tasks>>]_vars

\* a consume of an existing producer was answered 'Cannot consume'
C17_Witness ==
  \E i \in DOMAIN out :
    /\ out[i].error = "Cannot consume"
    /\ out[i].producer \in DOMAIN producers
    /\ ~producers[out[i].producer].closed

\* C18: peer-joined fan-out: the peer-joined of a successful join-room of B reaches
\* exactly the other peers that are members of B's Room.
C18_PeerJoinedFanout ==
  \A i \in DOMAIN out :
    (out[i].type = "emit" /\ out[i].name = "peer-joined") =>
      out[i].to = Audience(out[i].peer)

\* C19: new-producer fan-out: a successful produce of A sends new-producer, once,
\* to exactly the other peers that are members of A's Room.
C19_NewProducerFanout ==
  \A i \in DOMAIN out :
    (/\ out[i].type = "ack" /\ out[i].name = "produce" /\ out[i].ok
     /\ \A j \in DOMAIN out : out[j].type # "emit-throw") =>
      LET sent == {j \in DOMAIN out :
                     /\ out[j].type = "emit" /\ out[j].name = "new-producer"
                     /\ out[j].producer = out[i].producer /\ out[j].to # {}}
      IN IF Audience(out[i].peer) = {} THEN sent = {}
         ELSE Cardinality(sent) = 1 /\ \A j \in sent : out[j].to = Audience(out[i].peer)

\* C20: peer-left fan-out: the peer-left of a disconnected peer A reaches exactly
\* the peers remaining in A's Room.
C20_PeerLeftFanout ==
  \A i \in DOMAIN out :
    (out[i].type = "emit" /\ out[i].name = "peer-left") =>
      out[i].to = Audience(out[i].peer)

\* C22: Router lives iff Room lives: every Router that is not closed is the router
\* of a registered Room (each Room object has its own router, so of exactly one),
\* and the router of every registered Room is open.
C22_RouterIffRoom ==
  /\ \A r \in DOMAIN roomObjs : ~roomObjs[r].closed => Registered(r)
  /\ \A i \in DOMAIN rooms : ~roomObjs[rooms[i].val].closed

\* C23: consumer lifetime follows its source: no peer's consumers map holds a
\* consumer whose source producer is closed.
C23_ConsumerFollowsSource ==
  \A q \in DOMAIN peerObjs :
    \A c \in peerObjs[q].consumers : ~producers[consumers[c].producerId].closed

\* C24: transport close cascade: a transport that has closed is no longer in the
\* transports map of its joined peer, so that peer.transports.get of a later
\* request naming it finds nothing.
C24_ClosedTransportRemoved ==
  \A q \in DOMAIN peerObjs :
    (Member(q) /\ sockState[peerObjs[q].socket] = "open") =>
      \A t \in peerObjs[q].transports : ~transports[t].closed

\* C25: peer id re-use: once the disconnect of a peer session has been handled,
\* its Room has no entry left for that session, so that a join-room with the same
\* roomId and peerId from a new socket is not answered as a duplicate.
C25_IdFreeAfterDisconnect ==
  \A q \in peerLeft :
    LET room == MapGet(rooms, roomObjs[peerObjs[q].room].id)
    IN ~(/\ MapHas(rooms, roomObjs[peerObjs[q].room].id)
         /\ MapGet(roomObjs[room].peers, peerObjs[q].id) = q)

\* C26: per-peer request order: a get-producers is acknowledged only when no
\* handler of an earlier request of the same socket is still suspended.
C26_RequestOrder ==
  \A i \in DOMAIN out :
    (out[i].type = "ack" /\ out[i].name = "get-producers") =>
      ~\E t \in tasks : t.sock = out[i].sock

\* C27: missing acknowledgment callback: a request that arrives without a function
\* as its callback is dropped by the first check of its handler: nothing is
\* thrown, no handler is suspended at an engine call and nothing is sent.
C27_NoCallbackDropped ==
  \A i \in DOMAIN out : ~out[i].callback => (out[i].type = "drop" /\ Len(out) = 1)

HasPeer(s) == \E q \in DOMAIN peerObjs : Member(q) /\ peerObjs[q].socket = s

\* C28: requests before join: a connect-transport, produce, consume,
\* resume-consumer or get-producers received on a socket that has no Peer in any
\* Room is acknowledged with an error in the step that receives it, calls no
\* engine and changes nothing; and a Peer comes into being only with the success
\* acknowledgment of a join-room.
C28_BeforeJoin ==
  [][/\ \A i \in DOMAIN out' :
          (/\ out'[i].type = "ack" /\ out'[i].name \in Methods \ {"join-room"}
           /\ budget' # budget
           /\ ~HasPeer(out'[i].sock))
            => /\ ~out'[i].ok
               /\ UNCHANGED <<rooms, roomObjs, peerObjs, transports, producers,
                              consumers, ioRooms, tasks>>
     /\ \A t \in tasks' \ tasks : t.method # "join-room" => HasPeer(t.sock)
     /\ \A q \in DOMAIN peerObjs' \ DOMAIN peerObjs :
          \E i \in DOMAIN out' :
            /\ out'[i].type = "ack" /\ out'[i].name = "join-room" /\ out'[i].ok
            /\ out'[i].peer = q]_vars

\* a socket without a Peer was answered 'Peer not found' while another socket's
\* peer is in a Room
C28_Witness ==
  \E i \in DOMAIN out :
    /\ out[i].type = "ack" /\ out[i].error = "Peer not found"
    /\ ~HasPeer(out[i].sock)
    /\ \E q \in DOMAIN peerObjs : Member(q)

\* C29: idempotent retries: a step that acknowledges a get-producers or a
\* resume-consumer leaves the registry and every Room, Peer, transport, producer
\* and consumer as they were, so that a retry meets the state the first call met
\* and is answered as the first was.
C29_IdempotentRetries ==
  [][(\E i \in DOMAIN out' :
        out'[i].type = "ack" /\ out'[i].name \in {"get-producers", "resume-consumer"})
       => UNCHANGED <<rooms, roomObjs, peerObjs, transports, producers, consumers,
                      ioRooms>>]_vars

\* a resume-consumer was acknowledged with success for a consumer that had been
\* resumed before
C29_Witness ==
  \E i \in DOMAIN out :
    /\ out[i].type = "ack" /\ out[i].name = "resume-consumer" /\ out[i].ok
    /\ resumes[out[i].consumer] >= 2

\* C30: worker death is fatal: once a worker has died the process exits (the
\* exit timer set by the 'died' handler fires), and the pool keeps its size and
\* its dead workers: no worker is created or replaced.
C30_WorkerDeathFatal ==
  /\ (\E w \in DOMAIN workers : workers[w] = "dead") ~> exited
  /\ [][/\ DOMAIN workers' = DOMAIN workers
         /\ \A w \in DOMAIN workers : workers[w] = "dead" => workers'[w] = "dead"]_vars

\* the process has exited after the death of a worker
C30_Witness == exited /\ \E w \in DOMAIN workers : workers[w] = "dead"

\* C31: two transports per peer: every Peer that is a member of a Room owns
\* exactly two transports, one send and one receive, both created on the router
\* of the Room it is a member of, and no transport belongs to two Peers.
C31_TwoTransports ==
  /\ \A q \in DOMAIN peerObjs :
       Member(q) =>
         /\ Cardinality(peerObjs[q].transports) = 2
         /\ \E t \in peerObjs[q].transports : transports[t].dir = "send"
         /\ \E t \in peerObjs[q].transports : transports[t].dir = "recv"
         /\ \A t \in peerObjs[q].transports :
              q \in RoomPeers(transports[t].room) /\ transports[t].room = peerObjs[q].room
  /\ \A q1, q2 \in DOMAIN peerObjs :
       q1 # q2 => peerObjs[q1].transports \cap peerObjs[q2].transports = {}

\* a peer has joined a Room that already had a member
C31_Witness ==
  \E q \in DOMAIN peerObjs :
    /\ Member(q) /\ q \notin {1, 2, 4}
    /\ Cardinality(RoomPeers(peerObjs[q].room)) >= 2

\* C32: transportclose: in a step in which the transport that carries a producer
\* (or consumer) closes, the producer (consumer) is closed and is no longer in
\* the producers (consumers) map of the peer that owns it; and what has been
\* removed stays removed, whatever closes afterwards (a transport.close() on a
\* closed transport, the router, the worker).
C32_TransportClose ==
  /\ [][/\ \A p \in DOMAIN producers :
              (/\ ~TransportDead(producers[p].transport)
               /\ p \in DOMAIN producers'
               /\ \/ transports'[producers[p].transport].closed
                  \/ roomObjs'[transports[producers[p].transport].room].closed)
                => /\ producers'[p].closed
                   /\ p \notin peerObjs'[producers[p].peer].producers
         /\ \A c \in DOMAIN consumers :
              (/\ ~TransportDead(consumers[c].transport)
               /\ c \in DOMAIN consumers'
               /\ \/ transports'[consumers[c].transport].closed
                  \/ roomObjs'[transports[consumers[c].transport].room].closed)
                => /\ consumers'[c].closed
                   /\ c \notin peerObjs'[consumers[c].peer].consumers]_vars
  /\ [][/\ \A p \in DOMAIN producers \cap DOMAIN producers' :
              p \notin peerObjs[producers[p].peer].producers
                => p \notin peerObjs'[producers[p].peer].producers
         /\ \A c \in DOMAIN consumers \cap DOMAIN consumers' :
              c \notin peerObjs[consumers[c].peer].consumers
                => c \notin peerObjs'[consumers[c].peer].consumers]_vars

\* a transport that carried a producer and one that carried a consumer have
\* closed: both are closed and out of the maps of their peers
C32_Witness ==
  /\ \E p \in DOMAIN producers :
       /\ transports[producers[p].transport].closed /\ producers[p].closed
       /\ p \notin peerObjs[producers[p].peer].producers
  /\ \E c \in DOMAIN consumers :
       /\ transports[consumers[c].transport].closed /\ consumers[c].closed
       /\ c \notin peerObjs[consumers[c].peer].consumers

\* C33: one peer per socket: a socket is the socket of at most one Peer among
\* the members of the registered Rooms.
C33_OnePeerPerSocket ==
  \A q1, q2 \in DOMAIN peerObjs :
    (Member(q1) /\ Member(q2) /\ peerObjs[q1].socket = peerObjs[q2].socket) => q1 = q2

\* C34: room isolation under equal peer ids: whatever a handler does or emits on
\* behalf of a peer, it does to the Room that peer joined and emits to the
\* roomId of that Room.
C34_RoomIsolation ==
  \A i \in DOMAIN out :
    /\ (out[i].type = "step" /\ out[i].peer # 0) => out[i].room = peerObjs[out[i].peer].room
    /\ (out[i].type = "emit" /\ out[i].peer # 0) =>
         out[i].roomId = roomObjs[peerObjs[out[i].peer].room].id

\* C35: no transport leak: when no join-room handler is in progress, every
\* transport that is not closed is in the transports map of a Peer that is a
\* member of a registered Room.
C35_NoTransportLeak ==
  (~\E t \in tasks : t.method = "join-room") =>
    \A t \in DOMAIN transports :
      ~TransportDead(t) =>
        \E q \in DOMAIN peerObjs : Member(q) /\ t \in peerObjs[q].transports

\* C36: eventual cleanup: with every call of the engine settling, once every
\* socket has disconnected and every handler has completed, eventually the
\* registry is empty and every router and every transport is closed.
C36_EventualCleanup ==
  (tasks = {} /\ \A s \in Sockets : sockState[s] # "open") ~>
    (/\ rooms = << >>
     /\ \A r \in DOMAIN roomObjs : roomObjs[r].closed
     /\ \A t \in DOMAIN transports : TransportDead(t))

\* C37: relay server, room capacity: a room never has more than MAX_USERS member
\* sockets, and a join-room for a room that has MAX_USERS members is answered
\* room-full and nothing else, and adds nobody to the room.
C37_RelayCapacity ==
  /\ [](\A roomId \in RelayRoomIds : Cardinality(Clients(roomId)) <= MAX_USERS)
  /\ [][\A roomId \in RelayRoomIds :
          (/\ Cardinality(Clients(roomId)) = MAX_USERS
           /\ roles' # roles \/ \E i \in DOMAIN out' : out'[i].name \in {"room-full", "joined-room"})
            => /\ ioRooms' = ioRooms
               /\ Len(out') = 1 /\ out'[1].name = "room-full"
               /\ out'[1].to = {out'[1].sock}]_vars

\* a socket that is not a member was answered room-full by a room of MAX_USERS
C37_Witness ==
  \E i \in DOMAIN out :
    /\ out[i].name = "room-full"
    /\ Cardinality(Clients(out[i].roomId)) = MAX_USERS
    /\ out[i].roomId \notin ioRooms[out[i].sock]

\* C38: relay server, offer routing: an offer sent by a socket whose role is
\* 'user' is delivered only to sockets whose role is 'moderator'.
C38_UserOffersToModerators ==
  \A i \in DOMAIN out :
    (out[i].type = "relay" /\ out[i].name = "offer" /\ roles[out[i].sock] = "user") =>
      /\ out[i].sock \notin out[i].to
      /\ \A x \in out[i].to : roles[x] = "moderator"

\* C39: relay server, join notification: when a socket has joined with role
\* 'user', every moderator among the other members of the room is sent one
\* user-joined carrying the socket, and nobody else is; a join with another
\* role, and a join answered room-full, sends no user-joined.
C39_UserJoinedToModerators ==
  LET notified(s) == {i \in DOMAIN out : out[i].name = "user-joined" /\ out[i].sock = s}
  IN /\ \A i \in DOMAIN out :
          (out[i].name = "joined-room" /\ out[i].role = "user") =>
            /\ \A x \in Clients(out[i].roomId) \ {out[i].sock} :
                 roles[x] = "moderator" =>
                   Cardinality({j \in notified(out[i].sock) : out[j].to = {x}}) = 1
            /\ \A j \in notified(out[i].sock) :
                 \E x \in Clients(out[i].roomId) \ {out[i].sock} :
                   roles[x] = "moderator" /\ out[j].to = {x}
     /\ \A j \in DOMAIN out :
          out[j].name = "user-joined" =>
            \E i \in DOMAIN out :
              /\ out[i].name = "joined-room" /\ out[i].role = "user"
              /\ out[i].sock = out[j].sock

\* a user joined a room with two moderators and another user: two user-joined
C39_Witness ==
  \E i \in DOMAIN out :
    /\ out[i].name = "joined-room" /\ out[i].role = "user"
    /\ Cardinality({j \in DOMAIN out : out[j].name = "user-joined"}) = 2
    /\ \E x \in Clients(out[i].roomId) \ {out[i].sock} : roles[x] = "user"

====
